---------------------------- MODULE Spec2Model ----------------------------
(***************************************************************************)
(* Model of the audio feature-extraction core of ResonanceAI               *)
(* (src/src/utils/audioAnalysis.ts) and of the detection scorers           *)
(* (src/src/utils/voiceCloning.ts, src/src/utils/voiceCloning.js).         *)
(*                                                                         *)
(* What is exact: every length, index, loop bound, guard, early return,    *)
(* clamp and threshold of the code, and the arithmetic of the scorers,     *)
(* carried out over exact rationals extended with NaN and +-Infinity, the  *)
(* values JavaScript's division and Math.min/Math.max produce.             *)
(*                                                                         *)
(* What is abstract: the floating-point kernels (cos, sqrt, log, the FFT   *)
(* butterflies' values, the autocorrelation sums over 2048 samples).  A    *)
(* buffer carries a content profile that says which magnitudes, per-frame  *)
(* pitch estimates and cepstral values those kernels deliver for it; any   *)
(* profile is admitted except that a silent (all-zero) signal has the      *)
(* all-zero spectrum and no positive autocorrelation.  Rounding of IEEE    *)
(* doubles is not modelled.                                                *)
(***************************************************************************)
EXTENDS Integers, Sequences, FiniteSets, TLC

VARIABLES
    given,   \* the AudioBuffer as the caller supplied it (never written)
    buf,     \* the AudioBuffer the operations read: length, sampleRate, content
    ret      \* the record of the last top-level call: operation, value, ghosts

vars == <<given, buf, ret>>

--------------------------------------------------------------------------
(* JavaScript numbers: exact rationals n/d in lowest terms, NaN, +-Infinity *)

Abs(x) == IF x < 0 THEN -x ELSE x

RECURSIVE GCD(_, _)
GCD(a, b) == IF b = 0 THEN a ELSE GCD(b, a % b)

Rat(n, d) ==
    LET g == GCD(Abs(n), d)
    IN  [k |-> "num", n |-> n \div g, d |-> d \div g]

NaN == [k |-> "nan", n |-> 0, d |-> 1]
Infinity(sign) == [k |-> "inf", n |-> sign, d |-> 1]
Zero == Rat(0, 1)
One == Rat(1, 1)

IsNaN(a) == a.k = "nan"
IsNum(a) == a.k = "num"
Sign(a) == IF a.n > 0 THEN 1 ELSE IF a.n < 0 THEN -1 ELSE 0

\* a + b
JsAdd(a, b) ==
    IF IsNaN(a) \/ IsNaN(b) THEN NaN
    ELSE IF a.k = "inf" /\ b.k = "inf" THEN (IF a.n = b.n THEN a ELSE NaN)
    ELSE IF a.k = "inf" THEN a
    ELSE IF b.k = "inf" THEN b
    ELSE LET g == GCD(a.d, b.d)
         IN  Rat(a.n * (b.d \div g) + b.n * (a.d \div g), (a.d \div g) * b.d)

\* -a
JsNeg(a) == IF IsNaN(a) THEN NaN ELSE [a EXCEPT !.n = -a.n]

\* a - b
JsSub(a, b) == JsAdd(a, JsNeg(b))

\* a * b
JsMul(a, b) ==
    IF IsNaN(a) \/ IsNaN(b) THEN NaN
    ELSE IF a.k = "inf" \/ b.k = "inf"
         THEN (IF Sign(a) * Sign(b) = 0 THEN NaN ELSE Infinity(Sign(a) * Sign(b)))
    ELSE LET g1 == GCD(Abs(a.n), b.d)
             g2 == GCD(Abs(b.n), a.d)
         IN  Rat((a.n \div g1) * (b.n \div g2), (a.d \div g2) * (b.d \div g1))

\* a / b (0/0 is NaN, x/0 is +-Infinity; the sign of a zero is not kept)
JsDiv(a, b) ==
    IF IsNaN(a) \/ IsNaN(b) THEN NaN
    ELSE IF a.k = "inf" THEN (IF b.k = "inf" THEN NaN
                              ELSE Infinity(IF Sign(b) < 0 THEN -a.n ELSE a.n))
    ELSE IF b.k = "inf" THEN Zero
    ELSE IF b.n = 0 THEN (IF a.n = 0 THEN NaN ELSE Infinity(Sign(a)))
    ELSE JsMul(a, Rat(b.d * Sign(b), Abs(b.n)))

\* a < b (false when either is NaN)
JsLt(a, b) ==
    IF IsNaN(a) \/ IsNaN(b) THEN FALSE
    ELSE IF a.k = "inf" THEN a.n < 0 /\ ~(b.k = "inf" /\ b.n < 0)
    ELSE IF b.k = "inf" THEN b.n > 0
    ELSE a.n * b.d < b.n * a.d

JsGt(a, b) == JsLt(b, a)
JsLe(a, b) == ~IsNaN(a) /\ ~IsNaN(b) /\ ~JsLt(b, a)
JsGe(a, b) == JsLe(b, a)

\* Math.min, Math.max, Math.abs: NaN if an argument is NaN
MathMin(a, b) == IF IsNaN(a) \/ IsNaN(b) THEN NaN ELSE IF JsLt(b, a) THEN b ELSE a
MathMax(a, b) == IF IsNaN(a) \/ IsNaN(b) THEN NaN ELSE IF JsLt(a, b) THEN b ELSE a
MathAbs(a) == IF IsNaN(a) THEN NaN ELSE [a EXCEPT !.n = Abs(a.n)]

\* the sum of s[lo..hi], from 0 (reduce((sum, val) => sum + val, 0)); the
\* rationals are exact, so the order of the additions does not matter
RECURSIVE SumRange(_, _, _)
SumRange(s, lo, hi) ==
    IF lo > hi THEN Rat(0, 1)
    ELSE IF lo = hi THEN s[lo]
    ELSE LET mid == (lo + hi) \div 2
         IN  JsAdd(SumRange(s, lo, mid), SumRange(s, mid + 1, hi))

SumSeq(s) == SumRange(s, 1, Len(s))

Min(a, b) == IF a < b THEN a ELSE b
Max(a, b) == IF a > b THEN a ELSE b

--------------------------------------------------------------------------
(* Program constants *)

MfccFrameSize == 512
MfccHopSize == 256
MfccMaxFrames == 10
MfccCap == 40
DefaultNumCoefficients == 13
PitchFrameSize == 2048
PitchHopSize == 512
PitchMaxFrames == 20
FormantFrameSize == 512
FormantCount == 5
CentroidFrameSize == 2048
ViewerFftSize == 2048
ProsodyFrameSize == 1024
ProsodyHopSize == 512
ArtifactFrameSize == 2048
NumFilters == 26
ArtifactHopSize == 1024

--------------------------------------------------------------------------
(* Bounds of the model and the inputs drawn within them *)

MaxShort == 9        \* every length 0..MaxShort is an input
MaxBlocks == 7       \* longer inputs: up to MaxBlocks blocks of PitchFrameSize samples
RandomPeriod == 2    \* Math.random() outcomes repeat with this period within a call
MaxScore == 20       \* the scores fed to the blend: 0/20 .. MaxScore/20
MaxOtherChannels == 1  \* a buffer has channel 0 and up to MaxOtherChannels more
MaxFrameLen == 20    \* autoCorrelationPitch on samples: every frame length 0..MaxFrameLen
MaxBins == 4         \* applyMelFilterbank on magnitudes: spectra of 0..MaxBins bins
MaxMagnitude == 2    \* each of magnitude 0..MaxMagnitude
MaxLog2 == 4         \* fft step by step: arrays of 0 .. 2^MaxLog2 elements
MaxCalls == 3        \* loadModel: the calls issued, in any interleaving
MaxCoefficients == 3 \* coefficient counts 0..MaxCoefficients, the default and one above the cap

\* the short lengths, the multiples of the largest frame size and the length
\* just below each, and the lengths at and around which a framing loop gets
\* its first frame
SignalLengths ==
    (0 .. MaxShort)
    \cup {k * PitchFrameSize : k \in 1 .. MaxBlocks}
    \cup {k * PitchFrameSize - 1 : k \in 1 .. MaxBlocks}
    \cup {MfccFrameSize - 1, MfccFrameSize, MfccFrameSize + MfccHopSize,
          ProsodyFrameSize - 1, ProsodyFrameSize,
          ArtifactFrameSize + ArtifactHopSize - 1, ArtifactFrameSize + ArtifactHopSize}

SampleRates == {16000, 48000}

\* Content profiles.  pat: the samples, tiled over the signal.  mag: the
\* magnitudes the FFT delivers for a frame of the signal, tiled over the bins.
\* f0: the frequency (Hz) of the strongest periodicity of each frame, tiled
\* over the frames (0: none).  cep: the values the mel filterbank and DCT
\* deliver for a frame, tiled over the coefficients.  energy: the mean square
\* of a frame's samples in hundredths, tiled over the frames.
Silence ==
    [pat |-> <<0>>, mag |-> <<0>>, f0 |-> <<0>>,
     cep |-> <<-599, 0, 0, 0, 0, 0, 0, 0, 0, 0, 0, 0, 0>>, energy |-> <<0>>]
Tone ==
    [pat |-> <<1, 1, -1, -1>>, mag |-> <<0, 1, 3, 1>>, f0 |-> <<200>>,
     cep |-> <<2, -1, 1, 0>>, energy |-> <<100>>]
Speech ==
    [pat |-> <<1, -2, 0, 3, -1>>, mag |-> <<2, 5, 1, 4, 4, 0, 7>>,
     f0 |-> <<100, 0, 400, 25, 200, 1000>>,
     cep |-> <<20, -7, 3, 1, -2>>, energy |-> <<30, 10, 20>>]
Vowel ==
    [pat |-> <<1, 1, 1, 1, 1, 1, 1, 1, 1, 1, -1, -1, -1, -1, -1, -1, -1, -1, -1, -1>>,
     mag |-> <<0, 3, 1, 0>>, f0 |-> <<200>>,
     cep |-> <<-40, 12, 5, -3>>, energy |-> <<50>>]
Profiles == {Silence, Tone, Speech, Vowel}

Buffers ==
    [length : SignalLengths, sampleRate : SampleRates, profile : Profiles]

\* the buffers the detection scorers are run on
DetectBuffers == {b \in Buffers : b.length <= 2 * PitchFrameSize}

\* buffers with further channels, each of the buffer's length: others[c] is
\* the content of channel c
ChannelLengths == {MaxShort, MfccFrameSize + MfccHopSize, 2 * PitchFrameSize}
OtherChannels == UNION {[1 .. n -> Profiles] : n \in 0 .. MaxOtherChannels}
MultiChannelBuffers ==
    [length : ChannelLengths, sampleRate : SampleRates, profile : Profiles,
     others : OtherChannels]

\* the outcomes of Math.random(), each in [0, 1)
\* the values of extractMFCC's numCoefficients parameter
NumCoefficients == (0 .. MaxCoefficients) \cup {DefaultNumCoefficients, MfccCap + 1}

RandomDraws == {Rat(0, 1), Rat(1, 2), Rat(99, 100)}
\* the successive outcomes of Math.random() within one call
RandomStreams == [1 .. RandomPeriod -> RandomDraws]
Random(rs, i) == rs[(i % Len(rs)) + 1]

\* the scores the blend is applied to
Scores == {Rat(k, 20) : k \in 0 .. MaxScore}

Tile(s, i) == s[(i % Len(s)) + 1]

\* of the indices 0 .. len - 1, those congruent to r modulo period (r < period):
\* how many they are, and their sum
ClassCount(len, period, r) == IF r < len THEN (len - 1 - r) \div period + 1 ELSE 0
ClassSum(len, period, r) ==
    LET c == ClassCount(len, period, r)
    IN  r * c + period * ((c * (c - 1)) \div 2)

--------------------------------------------------------------------------
(* Buffers and frames *)

\* sample i of the buffer's last channel
ChannelDataLast(b, i) ==
    LET others == IF "others" \in DOMAIN b THEN b.others ELSE <<>>
    IN  IF Len(others) = 0 THEN Tile(b.profile.pat, i)
        ELSE Tile(others[Len(others)].pat, i)

\* audioBuffer.getChannelData(0)[i]
ChannelData(b, i) == Tile(b.profile.pat, i)

\* channelData.slice(start, end): a copy, clipped to the data's length
Slice(b, start, end) ==
    LET s == Min(start, b.length)
        e == Min(end, b.length)
    IN  [off |-> s, len |-> Max(e - s, 0), windowNaN |-> FALSE]

\* a frame whose samples are all zero (the samples repeat with the pattern's
\* period, so one period of the frame decides)
FrameSilent(b, frame) ==
    \A j \in 0 .. Min(frame.len, Len(b.profile.pat)) - 1 :
        ChannelData(b, frame.off + j) = 0

\* applyHammingWindow: a new array of the frame's length; the divisor
\* frame.length - 1 is zero for a one-sample frame, whose sample becomes NaN
applyHammingWindow(frame) ==
    [frame EXCEPT !.windowNaN = (frame.len = 1)]

\* fft(real, imag), invoked on two arrays of length n: returns at once for
\* n <= 1, otherwise runs the permutation and the butterflies in place on its
\* arguments, whatever n is (no check of n, no throw: error stays "none")
fft(n) == [len |-> n, ran |-> ~(n <= 1), error |-> "none"]

\* computeSpectrum: new Float32Array(n / 2) has floor(n / 2) elements; fft is
\* invoked on copies of length n; the loop's writes at or beyond the
\* spectrum's length are dropped
computeSpectrum(b, frame) ==
    LET n == frame.len
    IN  [bins |-> IF FrameSilent(b, frame)
                  THEN [i \in 1 .. (n \div 2) |-> Zero]
                  ELSE [i \in 1 .. (n \div 2) |-> Rat(Tile(b.profile.mag, i - 1), 1)],
         period |-> Len(b.profile.mag),
         phase |-> frame.off % Len(b.profile.pat),
         call |-> fft(n)]

\* applyMelFilterbank followed by computeDCT: numCoefficients values per
\* frame ("for (k = 0; k < numCoefficients; k++)"), decided by the frame's
\* samples, that is by the signal and the frame's position in its period
computeDCT(b, spectrum, numCoefficients) ==
    [k \in 1 .. numCoefficients |->
        Rat(Tile(b.profile.cep, k - 1 + spectrum.phase) - spectrum.phase, 1)]

\* the return of autoCorrelationPitch: bestLag > 0 ? sampleRate / bestLag : 0
LagToPitch(sampleRate, bestLag) ==
    IF bestLag > 0 THEN JsDiv(Rat(sampleRate, 1), Rat(bestLag, 1)) ELSE Zero

\* autoCorrelationPitch: the lags minLag .. maxLag - 1 below half the frame
\* are searched; bestLag is the lag of the strongest periodicity when that lag
\* is among them and the frame is not silent, else it stays 0
autoCorrelationPitch(b, frame, frameIndex) ==
    LET minLag == b.sampleRate \div 500
        maxLag == b.sampleRate \div 50
        f0 == Tile(b.profile.f0, frameIndex)
        lag == IF f0 > 0 THEN b.sampleRate \div f0 ELSE 0
        bestLag == IF /\ ~FrameSilent(b, frame)
                      /\ lag >= minLag /\ lag < maxLag /\ 2 * lag < frame.len
                   THEN lag ELSE 0
    IN  [bestLag |-> bestLag, pitch |-> LagToPitch(b.sampleRate, bestLag)]

--------------------------------------------------------------------------
(* The feature extractors of audioAnalysis.ts.  Each yields its value (val)
   and, as ghosts, the number of frames it analysed (frames), the fft
   invocations it made (ffts) and intermediate values (aux). *)

\* the concatenation of a sequence of sequences
RECURSIVE Concat(_)
Concat(ss) == IF ss = <<>> THEN <<>> ELSE Concat(SubSeq(ss, 1, Len(ss) - 1)) \o ss[Len(ss)]

\* the whole array, whatever n is
TakeAll(s, n) == s

\* array.slice(0, n)
Take(s, n) == SubSeq(s, 1, Min(n, Len(s)))

\* the frames a loop "for (i = 0; i < numFrames; i++)" would visit
FramesVisitedUncapped(numFrames, cap) == Max(numFrames, 0)

\* the frames a loop "for (i = 0; i < Math.min(numFrames, cap); i++)" visits
FramesVisited(numFrames, cap) == Max(Min(numFrames, cap), 0)

extractMFCC(b, numCoefficients) ==
    LET numFrames == (b.length - MfccFrameSize) \div MfccHopSize
        visited == FramesVisited(numFrames, MfccMaxFrames)
        Frame(i) == Slice(b, i * MfccHopSize, i * MfccHopSize + MfccFrameSize)
        perFrame == [i \in 1 .. visited |->
                        LET spectrum == computeSpectrum(b, applyHammingWindow(Frame(i - 1)))
                        IN  [mfcc |-> computeDCT(b, spectrum, numCoefficients),
                             call |-> spectrum.call]]
        mfccValues == Concat([i \in 1 .. visited |-> perFrame[i].mfcc])
    IN  [op |-> "extractMFCC",
         val |-> Take(mfccValues, MfccCap),
         frames |-> visited,
         ffts |-> {perFrame[i].call : i \in 1 .. visited},
         aux |-> [total |-> Len(mfccValues), numCoefficients |-> numCoefficients]]

\* every estimate pushed, whatever its value
KeepEstimateAlways(pitch) == TRUE

\* "if (pitch > 0)": the estimates pushed to pitchValues
KeepEstimate(pitch) == JsGt(pitch, Zero)

extractPitch(b) ==
    LET numFrames == (b.length - PitchFrameSize) \div PitchHopSize
        visited == FramesVisited(numFrames, PitchMaxFrames)
        Frame(i) == Slice(b, i * PitchHopSize, i * PitchHopSize + PitchFrameSize)
        estimates == [i \in 1 .. visited |-> autoCorrelationPitch(b, Frame(i - 1), i - 1)]
        Positive(e) == KeepEstimate(e.pitch)
        kept == SelectSeq(estimates, Positive)
    IN  [op |-> "extractPitch",
         val |-> [i \in 1 .. Len(kept) |-> kept[i].pitch],
         frames |-> visited,
         ffts |-> {},
         aux |-> estimates]

\* binToHz of findSpectralPeaks: (bin * sampleRate) / (spectrum.length * 2)
PeakBinToHz(bin, sampleRate, spectrumLength) == Rat(bin * sampleRate, spectrumLength * 2)

\* a band test that admits its two ends
InFormantBandInclusive(freq) == JsGe(freq, Rat(200, 1)) /\ JsLe(freq, Rat(5000, 1))

\* the band test of findSpectralPeaks: freq > 200 && freq < 5000
InFormantBand(freq) == JsGt(freq, Rat(200, 1)) /\ JsLt(freq, Rat(5000, 1))

\* the peaks left in the order they were found
SortNone(s) == s

\* peaks.sort((a, b) => b - a): descending, equal elements keeping their order
SortDesc(s) ==
    LET Rank(i) == Cardinality({j \in 1 .. Len(s) : JsGt(s[j], s[i])})
                   + Cardinality({j \in 1 .. i - 1 : s[j] = s[i]}) + 1
        ranked == {<<Rank(i), s[i]>> : i \in 1 .. Len(s)}
    IN  [r \in 1 .. Len(s) |-> (CHOOSE p \in ranked : p[1] = r)[2]]

\* findSpectralPeaks: bins is the spectrum, bins[i + 1] being spectrum[i]
findSpectralPeaks(bins, sampleRate) ==
    LET IsPeak(i) ==
            /\ JsGt(bins[i + 1], bins[i]) /\ JsGt(bins[i + 1], bins[i + 2])
            /\ InFormantBand(PeakBinToHz(i, sampleRate, Len(bins)))
        interior == [i \in 1 .. Len(bins) - 2 |-> i]
        peakBins == SelectSeq(interior, IsPeak)
        peaks == [j \in 1 .. Len(peakBins) |->
                     PeakBinToHz(peakBins[j], sampleRate, Len(bins))]
    IN  SortDesc(peaks)

extractFormants(b) ==
    LET frame == Slice(b, 0, FormantFrameSize)
        spectrum == computeSpectrum(b, applyHammingWindow(frame))
        peaks == findSpectralPeaks(spectrum.bins, b.sampleRate)
    IN  [op |-> "extractFormants",
         val |-> Take(peaks, FormantCount),
         frames |-> 1,
         ffts |-> {spectrum.call},
         aux |-> Len(peaks)]

\* the return of calculateSpectralCentroid, without the guard on the denominator
CentroidRatioUnguarded(numerator, denominator) == JsDiv(numerator, denominator)

\* the return of calculateSpectralCentroid: denominator > 0 ? numerator / denominator : 0
CentroidRatio(numerator, denominator) ==
    IF JsGt(denominator, Zero) THEN JsDiv(numerator, denominator) ELSE Zero

\* calculateSpectralCentroid.  The loop adds frequency(i) * spectrum[i] and
\* spectrum[i] over all bins i; the bins repeat with the spectrum's period, so
\* each sum is taken class by class of i modulo the period (exact rationals:
\* the order of the additions does not matter), frequency being linear in i.
calculateSpectralCentroid(b) ==
    LET frame == Slice(b, 0, CentroidFrameSize)
        spectrum == computeSpectrum(b, applyHammingWindow(frame))
        length == frame.len \div 2
        classes == Min(spectrum.period, length)
        Frequency(i) == JsMul(Rat(i, 1), Rat(b.sampleRate, CentroidFrameSize * 2))
        numerator ==
            SumSeq([r \in 1 .. classes |->
                       JsMul(Frequency(ClassSum(length, spectrum.period, r - 1)),
                             spectrum.bins[r])])
        denominator ==
            SumSeq([r \in 1 .. classes |->
                       JsMul(Rat(ClassCount(length, spectrum.period, r - 1), 1),
                             spectrum.bins[r])])
    IN  [op |-> "calculateSpectralCentroid",
         val |-> CentroidRatio(numerator, denominator),
         frames |-> 1,
         ffts |-> {spectrum.call},
         aux |-> [length |-> length, numerator |-> numerator, denominator |-> denominator,
                  binWidth |-> Frequency(1)]]

\* calculateZeroCrossingRate.  The loop counts the i in 1 .. length - 1 at
\* which the sign changes; the samples repeat with the pattern's period, so the
\* count is taken class by class of i modulo the period.
calculateZeroCrossingRate(b) ==
    LET period == Len(b.profile.pat)
        Crossing(i) ==
            \/ ChannelData(b, i) >= 0 /\ ChannelData(b, i - 1) < 0
            \/ ChannelData(b, i) < 0 /\ ChannelData(b, i - 1) >= 0
        Visits(r) == ClassCount(b.length, period, r)
                     - (IF r = 0 /\ b.length > 0 THEN 1 ELSE 0)
        PerClass(r) == IF Crossing(r + period) THEN Visits(r) ELSE 0
        crossings == SumSeq([r \in 1 .. period |-> Rat(PerClass(r - 1), 1)]).n
    IN  [op |-> "calculateZeroCrossingRate",
         val |-> JsDiv(Rat(crossings, 1), Rat(b.length, 1)),
         frames |-> 0,
         ffts |-> {},
         aux |-> crossings]

\* the effect of SpectrogramViewer: one row of magnitudes per frame, each
\* from an fft over arrays allocated with fftSize elements
drawSpectrogram(b) ==
    LET hopSize == ViewerFftSize \div 4
        numFrames == (b.length - ViewerFftSize) \div hopSize
        visited == Max(numFrames, 0)
    IN  [op |-> "drawSpectrogram",
         val |-> visited,
         frames |-> visited,
         ffts |-> {fft(ViewerFftSize) : i \in 1 .. visited},
         aux |-> 0]

\* calculateVariance of audioAnalysis.ts: 0 for no values
calculateVariance(values) ==
    IF Len(values) = 0 THEN Zero
    ELSE LET n == Rat(Len(values), 1)
             mean == JsDiv(SumSeq(values), n)
             squaredDiffs == [i \in 1 .. Len(values) |->
                                 JsMul(JsSub(values[i], mean), JsSub(values[i], mean))]
         IN  JsDiv(SumSeq(squaredDiffs), n)

\* simulateDetection, first part: the features it extracts
extractFeatures(b) ==
    [mfcc |-> extractMFCC(b, DefaultNumCoefficients),
     pitch |-> extractPitch(b),
     formants |-> extractFormants(b),
     spectralCentroid |-> calculateSpectralCentroid(b),
     zcr |-> calculateZeroCrossingRate(b)]

\* a clamp of the confidence with the floor at one half
ClampConfidenceHalf(x) == MathMin(Rat(95, 100), MathMax(Rat(1, 2), x))

\* the clamp of simulateDetection: Math.min(0.95, Math.max(0.55, x))
ClampConfidence(x) == MathMin(Rat(95, 100), MathMax(Rat(55, 100), x))

\* the outcome of Math.random() added whole
RandomFactorWhole(r) == r

\* randomFactor = Math.random() * 0.3
RandomFactor(r) == JsMul(r, Rat(3, 10))

\* a factor count that counts the features that added their weight
DetectionFactorsWeighted(pitchLength, pitchHit, zcrHit, centroidHit, mfccLength, mfccHit) ==
    (IF pitchHit THEN 1 ELSE 0) + (IF zcrHit THEN 1 ELSE 0)
    + (IF centroidHit THEN 1 ELSE 0) + (IF mfccHit THEN 1 ELSE 0)

\* the "factors++" of simulateDetection: for the pitch and the MFCC features
\* inside "if (features.x.length > 0)", outside the test of the variance; for
\* the ZCR and the centroid inside the test that adds the weight
DetectionFactors(pitchLength, pitchHit, zcrHit, centroidHit, mfccLength, mfccHit) ==
    (IF pitchLength > 0 THEN 1 ELSE 0) + (IF zcrHit THEN 1 ELSE 0)
    + (IF centroidHit THEN 1 ELSE 0) + (IF mfccLength > 0 THEN 1 ELSE 0)

\* simulateDetection, second part: the score, with r the outcome of its
\* Math.random()
scoreFeatures(features, r) ==
    LET mfcc == features.mfcc.val
        pitch == features.pitch.val
        spectralCentroid == features.spectralCentroid.val
        zcr == features.zcr.val
        pitchHit == Len(pitch) > 0 /\ JsLt(calculateVariance(pitch), Rat(100, 1))
        zcrHit == JsLt(zcr, Rat(5, 100)) \/ JsGt(zcr, Rat(15, 100))
        centroidHit == JsGt(spectralCentroid, Rat(4000, 1))
        mfccHit == Len(mfcc) > 0 /\ JsLt(calculateVariance(mfcc), Rat(10, 1))
        syntheticScore ==
            JsAdd(JsAdd(JsAdd(JsAdd(JsAdd(Zero,
                IF pitchHit THEN Rat(3, 10) ELSE Zero),
                IF zcrHit THEN Rat(2, 10) ELSE Zero),
                IF centroidHit THEN Rat(15, 100) ELSE Zero),
                IF mfccHit THEN Rat(25, 100) ELSE Zero),
                RandomFactor(r))
        factors == DetectionFactors(Len(pitch), pitchHit, zcrHit, centroidHit,
                                    Len(mfcc), mfccHit)
        confidence == ClampConfidence(JsDiv(syntheticScore, Rat(Max(factors, 1), 1)))
    IN  [op |-> "simulateDetection",
         val |-> [isSynthetic |-> JsGt(confidence, Rat(7, 10)),
                  confidence |-> confidence],
         frames |-> 0,
         ffts |-> features.mfcc.ffts \cup features.formants.ffts
                  \cup features.spectralCentroid.ffts,
         aux |-> [factors |-> factors, score |-> syntheticScore, random |-> r]]

simulateDetection(b, r) == scoreFeatures(extractFeatures(b), r)

--------------------------------------------------------------------------
(* The detection of voiceCloning.ts.  rs holds the successive outcomes of
   Math.random() during the call. *)

\* calculateVariance of voiceCloning.ts: no guard for an empty array
calculateVarianceVC(array) ==
    LET n == Rat(Len(array), 1)
        mean == JsDiv(SumSeq(array), n)
        squaredDiffs == [i \in 1 .. Len(array) |->
                            JsMul(JsSub(array[i], mean), JsSub(array[i], mean))]
    IN  JsDiv(SumSeq(squaredDiffs), n)

\* the frames analyzeProsodyPatterns visits
ProsodyFrames(b) == Max((b.length - ProsodyFrameSize) \div ProsodyHopSize + 1, 0)

analyzeProsodyPatterns(b, rs) ==
    LET numFrames == ProsodyFrames(b)
        Frame(i) == Slice(b, i * ProsodyHopSize, i * ProsodyHopSize + ProsodyFrameSize)
        pitchContour == [i \in 1 .. numFrames |->
                            JsAdd(Rat(100, 1), JsMul(Random(rs, i - 1), Rat(100, 1)))]
        energyContour == [i \in 1 .. numFrames |->
                             IF FrameSilent(b, Frame(i - 1)) THEN Zero
                             ELSE Rat(Tile(b.profile.energy, i - 1), 100)]
        pitchVariance == calculateVarianceVC(pitchContour)
        energyVariance == calculateVarianceVC(energyContour)
        prosodyScore == JsAdd(JsMul(pitchVariance, Rat(10, 1)),
                              JsMul(energyVariance, Rat(5, 1)))
    IN  MathMin(One, MathMax(Zero, prosodyScore))

\* a per-frame score that is the outcome of Math.random() itself
simulateSpectralAnalysisWhole(r) == r

\* simulateSpectralAnalysis, with r the outcome of its Math.random()
simulateSpectralAnalysis(r) == JsMul(r, Rat(3, 10))

\* detectSpectralArtifacts (the exported declaration, the later of the two in
\* the file); its draws start at rs[first]
detectSpectralArtifacts(b, rs, first) ==
    LET numFrames == (b.length - ArtifactFrameSize) \div ArtifactHopSize
        scores == [i \in 1 .. Max(numFrames, 0) |->
                      simulateSpectralAnalysis(Random(rs, first + i - 1))]
        artifactScore == JsDiv(SumSeq(scores), Rat(numFrames, 1))
    IN  JsSub(One, MathMin(One, MathMax(Zero, artifactScore)))

\* a decision that also counts the threshold itself as synthetic
IsSyntheticInclusive(naturalness) == JsLe(naturalness, Rat(65, 100))

\* the decision of enhancedSyntheticVoiceDetection: naturalness < 0.65
IsSynthetic(naturalness) == JsLt(naturalness, Rat(65, 100))

\* the combination step of enhancedSyntheticVoiceDetection
NaturalnessBlend(prosodyScore, spectralArtifactScore) ==
    LET naturalness == JsAdd(JsMul(JsSub(One, spectralArtifactScore), Rat(6, 10)),
                             JsMul(prosodyScore, Rat(4, 10)))
    IN  [is_synthetic |-> IsSynthetic(naturalness),
         confidence_score |->
             MathMin(Rat(95, 100),
                 MathMax(Rat(6, 10),
                     JsAdd(JsMul(MathAbs(JsSub(naturalness, Rat(65, 100))), Rat(3, 1)),
                           Rat(6, 10)))),
         prosodyScore |-> prosodyScore,
         spectralArtifactScore |-> spectralArtifactScore,
         naturalness |-> naturalness]

\* a detection whose confidence is drawn the way the JavaScript module's is
enhancedSyntheticVoiceDetectionDrawn(b, rs) ==
    LET prosodyScore == analyzeProsodyPatterns(b, rs)
        spectralArtifactScore == detectSpectralArtifacts(b, rs, ProsodyFrames(b))
        blend == NaturalnessBlend(prosodyScore, spectralArtifactScore)
    IN  [op |-> "enhancedSyntheticVoiceDetection",
         val |-> [blend EXCEPT !.confidence_score =
                                   JsAdd(Rat(7, 10), JsMul(Random(rs, 0), Rat(3, 10)))],
         frames |-> 0,
         ffts |-> {},
         aux |-> 0]

enhancedSyntheticVoiceDetection(b, rs) ==
    LET prosodyScore == analyzeProsodyPatterns(b, rs)
        spectralArtifactScore == detectSpectralArtifacts(b, rs, ProsodyFrames(b))
    IN  [op |-> "enhancedSyntheticVoiceDetection",
         val |-> NaturalnessBlend(prosodyScore, spectralArtifactScore),
         frames |-> 0,
         ffts |-> {},
         aux |-> 0]

\* enhancedSyntheticVoiceDetection of voiceCloning.js: what its promise
\* resolves with
enhancedSyntheticVoiceDetectionJs(b, rs) ==
    [op |-> "enhancedSyntheticVoiceDetectionJs",
     val |-> [isSynthetic |-> JsGt(Random(rs, 0), Rat(1, 2)),
              confidence |-> JsAdd(Rat(7, 10), JsMul(Random(rs, 1), Rat(3, 10)))],
     frames |-> 0,
     ffts |-> {},
     aux |-> 0]

--------------------------------------------------------------------------
(* The state machine: a caller holding one buffer invokes the top-level
   operations in any order, any number of times. *)

NoCall == [op |-> "none", val |-> 0, frames |-> 0, ffts |-> {}, aux |-> 0]

Init ==
    /\ given \in Buffers
    /\ buf = given
    /\ ret = NoCall

ExtractMFCC ==
    /\ ret' = extractMFCC(buf, DefaultNumCoefficients)
    /\ UNCHANGED <<given, buf>>

ExtractPitch ==
    /\ ret' = extractPitch(buf)
    /\ UNCHANGED <<given, buf>>

\* an extraction that windows the buffer's own samples instead of a copy
ExtractFormantsInPlace ==
    /\ ret' = extractFormants(buf)
    /\ buf' = [buf EXCEPT !.profile = [@ EXCEPT !.mag = <<1>>, !.energy = <<1>>]]
    /\ UNCHANGED given

ExtractFormants ==
    /\ ret' = extractFormants(buf)
    /\ UNCHANGED <<given, buf>>

\* a centroid whose fft runs on the buffer's own samples instead of a copy
CalculateSpectralCentroidInPlace ==
    /\ ret' = calculateSpectralCentroid(buf)
    /\ buf' = [buf EXCEPT !.profile = [@ EXCEPT !.pat = <<1>>]]
    /\ UNCHANGED given

CalculateSpectralCentroid ==
    /\ ret' = calculateSpectralCentroid(buf)
    /\ UNCHANGED <<given, buf>>

CalculateZeroCrossingRate ==
    /\ ret' = calculateZeroCrossingRate(buf)
    /\ UNCHANGED <<given, buf>>

DrawSpectrogram ==
    /\ ret' = drawSpectrogram(buf)
    /\ UNCHANGED <<given, buf>>

SimulateDetection ==
    /\ LET features == extractFeatures(buf)
       IN  \E r \in RandomDraws : ret' = scoreFeatures(features, r)
    /\ UNCHANGED <<given, buf>>

Next ==
    \/ ExtractMFCC
    \/ ExtractPitch
    \/ ExtractFormants
    \/ CalculateSpectralCentroid
    \/ CalculateZeroCrossingRate
    \/ DrawSpectrogram
    \/ SimulateDetection

Spec == Init /\ [][Next]_vars

--------------------------------------------------------------------------
(* extractMFCC called with a coefficient count chosen by the caller *)

ExtractMFCCWith ==
    \E numCoefficients \in NumCoefficients :
        /\ ret' = extractMFCC(buf, numCoefficients)
        /\ UNCHANGED <<given, buf>>

NextMfcc == ExtractMFCCWith

SpecMfcc == Init /\ [][NextMfcc]_vars

--------------------------------------------------------------------------
(* autoCorrelationPitch computed on the samples of a frame.  A frame is
   [length, sampleRate, pat]: sample i is pat tiled, and sampleRate is the
   rate the caller passes with it. *)

\* sample rates an AudioBuffer can have whose lag range starts within a
\* frame of MaxFrameLen samples
PitchSampleRates == {3000, 4000}

\* the short frames, and frames long enough for the lag range to end at maxLag
PitchFrameLengths ==
    (0 .. MaxFrameLen) \cup {2 * (sr \div 50) + 5 : sr \in PitchSampleRates}

PitchPatterns ==
    { <<0>>,
      <<1, -1>>,
      <<3, 1, 0, -1, -2, 0, 1>>,
      <<2, 0, 0, 0, 0, 0, 1, 1, 0, 0, 0, 0, 0, 0, 0, 0, 0, 0, 0, 0>>,
      <<1, 0, 0, 0, 0, 0, 0, -1, 0, 0, 0, 0, 0, 0, 0, 0, 0>>,
      <<0, 0, 2, 0, 0, 0, 0, 0, 0, 0, 0, 3, 0, 0, 0, 0, 0, 0, 0>> }

PitchFrames ==
    [length : PitchFrameLengths, sampleRate : PitchSampleRates, pat : PitchPatterns]

\* frame[i]
FrameSample(frame, i) == Tile(frame.pat, i)

\* the inner loop: the sum of frame[i] * frame[i + lag] for i = lo .. hi
RECURSIVE CorrelationRange(_, _, _, _)
CorrelationRange(frame, lag, lo, hi) ==
    IF lo > hi THEN 0
    ELSE IF lo = hi THEN FrameSample(frame, lo) * FrameSample(frame, lo + lag)
    ELSE LET mid == (lo + hi) \div 2
         IN  CorrelationRange(frame, lag, lo, mid) + CorrelationRange(frame, lag, mid + 1, hi)

\* "for (i = 0; i < frame.length - lag; i++) correlation += frame[i] * frame[i + lag]"
Correlation(frame, lag) == CorrelationRange(frame, lag, 0, frame.length - lag - 1)

\* a correlation replaces the best one when it is at least as large
BetterCorrelationOrEqual(correlation, maxCorrelation) == correlation >= maxCorrelation

\* "if (correlation > maxCorrelation)"
BetterCorrelation(correlation, maxCorrelation) == correlation > maxCorrelation

\* one iteration of the lag loop on the loop's variables (lags: the lags
\* visited so far, a ghost)
SearchStep(frame, st, lag) ==
    LET correlation == Correlation(frame, lag)
    IN  IF BetterCorrelation(correlation, st.maxCorrelation)
        THEN [maxCorrelation |-> correlation, bestLag |-> lag, lags |-> st.lags \cup {lag}]
        ELSE [st EXCEPT !.lags = @ \cup {lag}]

\* the iterations for lag = lo .. hi, in order: those up to mid, and once
\* their outcome is known those after mid
RECURSIVE SearchLags(_, _, _, _)
SearchLags(frame, st, lo, hi) ==
    IF lo > hi THEN st
    ELSE IF lo = hi THEN SearchStep(frame, st, lo)
    ELSE LET mid == (lo + hi) \div 2
             half == SearchLags(frame, st, lo, mid)
         IN  IF mid \in half.lags THEN SearchLags(frame, half, mid + 1, hi) ELSE half

\* autoCorrelationPitch(frame, sampleRate): the loop runs from minLag while
\* lag < maxLag and lag < frame.length / 2, that is up to the smaller of
\* maxLag - 1 and the largest lag with 2 * lag < frame.length
autoCorrelationPitchSamples(frame) ==
    LET minLag == frame.sampleRate \div 500
        maxLag == frame.sampleRate \div 50
        last == Min(maxLag - 1, (frame.length - 1) \div 2)
        start == [maxCorrelation |-> 0, bestLag |-> 0, lags |-> {}]
        final == SearchLags(frame, start, minLag, last)
    IN  [op |-> "autoCorrelationPitch",
         val |-> LagToPitch(frame.sampleRate, final.bestLag),
         frames |-> 0,
         ffts |-> {},
         aux |-> final]

InitPitch ==
    /\ given \in PitchFrames
    /\ buf = given
    /\ ret = NoCall

AutoCorrelationPitch ==
    /\ ret' = autoCorrelationPitchSamples(buf)
    /\ UNCHANGED <<given, buf>>

NextPitch == AutoCorrelationPitch

SpecPitch == InitPitch /\ [][NextPitch]_vars

--------------------------------------------------------------------------
(* applyMelFilterbank computed on the magnitudes of a spectrum.  An input is
   [spectrum, sampleRate, scale]: spectrum[j + 1] is the magnitude of bin j. *)

\* melToHz is computed in floating point; a scale stands for its curve from
\* melToHz(minMel) = 0 to melToHz(maxMel) = maxFreq
MelScales == {"linear", "convex"}

MelInputs ==
    [spectrum : UNION {[1 .. n -> 0 .. MaxMagnitude] : n \in 0 .. MaxBins},
     sampleRate : SampleRates,
     scale : MelScales]

\* melPoints[i] = melToHz(minMel + (i / (numFilters + 1)) * (maxMel - minMel)),
\* i = 0 .. numFilters + 1: strictly increasing from 0 to maxFreq = sampleRate / 2
MelPoint(m, i) ==
    LET maxFreq == JsDiv(Rat(m.sampleRate, 1), Rat(2, 1))
    IN  IF m.scale = "linear"
        THEN JsMul(maxFreq, Rat(i, NumFilters + 1))
        ELSE JsMul(maxFreq, Rat(i * (i + NumFilters + 1), 2 * (NumFilters + 1) * (NumFilters + 1)))

\* binToHz of applyMelFilterbank: (bin * sampleRate) / (spectrum.length * 2)
MelBinToHz(m, bin) == Rat(bin * m.sampleRate, Len(m.spectrum) * 2)

\* every bin taken into every filter
InFilterSupportAlways(freq, lo, hi) == TRUE

\* "if (freq >= melPoints[i] && freq <= melPoints[i + 2])"
InFilterSupport(freq, lo, hi) == JsGe(freq, lo) /\ JsLe(freq, hi)

\* the weight of a bin of frequency freq in the filter lo, mid, hi
MelWeight(freq, lo, mid, hi) ==
    IF JsLt(freq, mid)
    THEN JsDiv(JsSub(freq, lo), JsSub(mid, lo))
    ELSE JsDiv(JsSub(hi, freq), JsSub(hi, mid))

\* Math.log(filterSum + 1e-10): defined for filterSum > -1e-10, which for the
\* sums here (multiples of a fraction far above 1e-10) is filterSum >= 0; the
\* logarithm is kept as a term, ordered as its argument is
MelLog(filterSum) ==
    IF IsNum(filterSum) /\ JsGe(filterSum, Zero) THEN [k |-> "log", of |-> filterSum]
    ELSE NaN

\* applyMelFilterbank(spectrum, sampleRate).  weights: <<filter, bin, weight>>
\* for every weight computed; sums: filterSum of every filter
applyMelFilterbank(m) ==
    LET bins == Len(m.spectrum)
        used == {<<i, j>> \in (0 .. NumFilters - 1) \X (0 .. bins - 1) :
                    InFilterSupport(MelBinToHz(m, j), MelPoint(m, i), MelPoint(m, i + 2))}
        weights == {<<p[1], p[2], MelWeight(MelBinToHz(m, p[2]), MelPoint(m, p[1]),
                                            MelPoint(m, p[1] + 1), MelPoint(m, p[1] + 2))>> :
                       p \in used}
        Term(i, j) ==
            LET w == {t \in weights : t[1] = i /\ t[2] = j}
            IN  IF w = {} THEN Zero
                ELSE JsMul(Rat(m.spectrum[j + 1], 1), (CHOOSE t \in w : TRUE)[3])
        sums == [i \in 1 .. NumFilters |->
                    SumSeq([j \in 1 .. bins |-> Term(i - 1, j - 1)])]
    IN  [op |-> "applyMelFilterbank",
         val |-> [i \in 1 .. NumFilters |-> MelLog(sums[i])],
         frames |-> 0,
         ffts |-> {},
         aux |-> [weights |-> weights, sums |-> sums]]

InitMel ==
    /\ given \in MelInputs
    /\ buf = given
    /\ ret = NoCall

ApplyMelFilterbank ==
    /\ ret' = applyMelFilterbank(buf)
    /\ UNCHANGED <<given, buf>>

NextMel == ApplyMelFilterbank

SpecMel == InitMel /\ [][NextMel]_vars

--------------------------------------------------------------------------
(* fft(real, imag) step by step (audioAnalysis.ts and SpectrogramViewer.tsx
   hold the same function).  given.n is the arrays' length.  buf is the state
   of the call: pc, the loop variables i, j, len, and the arrays, of which
   real[p + 1] and imag[p + 1] name the position whose initial element
   position p holds.  Ghosts: stages, the len of every finished butterfly
   stage; count and touched, the butterflies of the running stage and how
   often each index was accessed by them; last, the same for the stage that
   finished last; outside, the accessed indices that are not in 0 .. n - 1. *)

FftLengths == 0 .. 2 ^ MaxLog2

\* a swap whenever i and j differ
SwapNeededAlways(i, j) == j # i

\* "if (j > i)"
SwapNeeded(i, j) == j > i

\* [a[i], a[j]] = [a[j], a[i]] on a typed array of n elements: an element
\* read beyond the end is undefined and a write beyond the end is dropped
SwapAt(a, i, j) ==
    LET n == Len(a)
        At(p) == IF p < n THEN a[p + 1] ELSE -1
    IN  [p \in 1 .. n |-> IF p = i + 1 THEN At(j) ELSE IF p = j + 1 THEN At(i) ELSE a[p]]

\* "while (m >= 1 && j >= m) { j -= m; m >>= 1; }  j += m"
RECURSIVE ReverseIncrement(_, _)
ReverseIncrement(j, m) ==
    IF m >= 1 /\ j >= m THEN ReverseIncrement(j - m, m \div 2) ELSE j + m

\* the whole stage length taken for its half
HalfLenWhole(len) == len

\* halfLen = len >> 1
HalfLen(len) == len \div 2

NoStage == [len |-> 0, count |-> 0, touched |-> <<>>]

FftStart(n) ==
    [pc |-> "start", i |-> 0, j |-> 0, len |-> 0,
     real |-> [p \in 1 .. n |-> p - 1], imag |-> [p \in 1 .. n |-> p - 1],
     stages |-> <<>>, count |-> 0, touched |-> [p \in 1 .. n |-> 0],
     last |-> NoStage, outside |-> {}]

InitFft ==
    /\ given \in [n : FftLengths]
    /\ buf = FftStart(given.n)
    /\ ret = NoCall

\* "if (n <= 1) return", else the first loop is entered with i = 0, j = 0
FftEnter ==
    /\ buf.pc = "start"
    /\ buf' = [buf EXCEPT !.pc = IF given.n <= 1 THEN "done" ELSE "permute"]
    /\ UNCHANGED <<given, ret>>

\* one iteration of the first loop
FftPermute ==
    /\ buf.pc = "permute"
    /\ buf.i < given.n
    /\ LET swap == SwapNeeded(buf.i, buf.j)
       IN  buf' = [buf EXCEPT
                     !.real = IF swap THEN SwapAt(@, buf.i, buf.j) ELSE @,
                     !.imag = IF swap THEN SwapAt(@, buf.i, buf.j) ELSE @,
                     !.outside = IF swap /\ buf.j >= given.n THEN @ \cup {buf.j} ELSE @,
                     !.j = ReverseIncrement(buf.j, given.n \div 2),
                     !.i = buf.i + 1]
    /\ UNCHANGED <<given, ret>>

\* the first loop ends at i = n; the second starts with len = 2, i = 0, j = 0
\* (2 <= n here, so its first butterfly is due)
FftPermuted ==
    /\ buf.pc = "permute"
    /\ ~(buf.i < given.n)
    /\ buf' = [buf EXCEPT !.pc = "butterfly", !.len = 2, !.i = 0, !.j = 0]
    /\ UNCHANGED <<given, ret>>

\* one butterfly: real and imag are read and written at i + j and at
\* i + j + halfLen; then the three loops advance to the next butterfly due,
\* if any (j++, else i += len, else len <<= 1)
FftButterfly ==
    /\ buf.pc = "butterfly"
    /\ LET n == given.n
           len == buf.len
           halfLen == HalfLen(len)
           lo == buf.i + buf.j
           hi == buf.i + buf.j + halfLen
           touched == [p \in 1 .. n |->
                          buf.touched[p] + (IF p = lo + 1 THEN 1 ELSE 0)
                                         + (IF p = hi + 1 THEN 1 ELSE 0)]
           outside == buf.outside \cup {x \in {lo, hi} : x >= n}
           count == buf.count + 1
           finished == [len |-> len, count |-> count, touched |-> touched]
       IN  buf' =
             IF buf.j + 1 < halfLen
             THEN [buf EXCEPT !.j = buf.j + 1, !.count = count,
                              !.touched = touched, !.outside = outside]
             ELSE IF buf.i + len < n
             THEN [buf EXCEPT !.i = buf.i + len, !.j = 0, !.count = count,
                              !.touched = touched, !.outside = outside]
             ELSE [buf EXCEPT !.pc = IF 2 * len <= n THEN "butterfly" ELSE "done",
                              !.len = 2 * len, !.i = 0, !.j = 0,
                              !.stages = Append(@, len),
                              !.count = 0, !.touched = [p \in 1 .. n |-> 0],
                              !.last = finished, !.outside = outside]
    /\ UNCHANGED <<given, ret>>

NextFft == FftEnter \/ FftPermute \/ FftPermuted \/ FftButterfly

SpecFft == InitFft /\ [][NextFft]_vars

\* a call that has started goes on until it returns
SpecFftFair == SpecFft /\ WF_vars(NextFft)

--------------------------------------------------------------------------
(* The detection scorers, run on one buffer in any order *)

InitDetect ==
    /\ given \in DetectBuffers
    /\ buf = given
    /\ ret = NoCall

EnhancedSyntheticVoiceDetection ==
    /\ \E rs \in RandomStreams : ret' = enhancedSyntheticVoiceDetection(buf, rs)
    /\ UNCHANGED <<given, buf>>

EnhancedSyntheticVoiceDetectionJs ==
    /\ \E rs \in RandomStreams : ret' = enhancedSyntheticVoiceDetectionJs(buf, rs)
    /\ UNCHANGED <<given, buf>>

NextDetect ==
    \/ SimulateDetection
    \/ EnhancedSyntheticVoiceDetection
    \/ EnhancedSyntheticVoiceDetectionJs

SpecDetect == InitDetect /\ [][NextDetect]_vars

--------------------------------------------------------------------------
(* handleAnalyze of App.tsx.  It has no await, so it runs from its call to
   its end in one step.  ret.val holds what it passed to setCurrentAnalysis
   (currentAnalysis), what it passed to insertAudioAnalysis (inserted) and
   whether it called setRefreshHistory (refreshed); ret.aux is the promise the
   detector returned. *)

\* what calling an async function yields: a promise, here already fulfilled
\* with the function's return value
AsyncCall(value) == [kind |-> "promise", state |-> "fulfilled", value |-> value]

\* the JavaScript values undefined, true and false
Undefined == [k |-> "undefined"]
Boolean(b) == [k |-> "boolean", b |-> b]

\* obj.name: a promise has no property of the names read here, whatever it
\* is or will be fulfilled with
PropertyOf(obj, name) ==
    IF obj.kind = "promise" THEN Undefined ELSE obj.value[name]

\* insertAudioAnalysis (lib/localStorage, not among the sources): it returns
\* with an error, returns without one, or throws
InsertOutcomes == {"error", "stored", "thrown"}

\* handleAnalyze, with extracted the results of the five extractors it calls
\* first
handleAnalyze(b, extracted, rs, outcome) ==
    LET features == [mfcc |-> extracted.mfcc.val,
                     pitch |-> extracted.pitch.val,
                     formants |-> extracted.formants.val,
                     spectral_centroid |-> extracted.spectralCentroid.val,
                     zero_crossing_rate |-> extracted.zcr.val]
        resolved == enhancedSyntheticVoiceDetectionJs(b, rs).val
        enhancedDetection == AsyncCall([isSynthetic |-> Boolean(resolved.isSynthetic),
                                        confidence |-> resolved.confidence])
        detection == [isSynthetic |-> PropertyOf(enhancedDetection, "isSynthetic"),
                      confidence |-> PropertyOf(enhancedDetection, "confidence")]
    IN  [op |-> "handleAnalyze",
         val |-> [currentAnalysis |-> [features |-> features, detection |-> detection],
                  inserted |-> [sample_rate |-> b.sampleRate,
                                is_synthetic |-> detection.isSynthetic,
                                confidence_score |-> detection.confidence,
                                features |-> features],
                  refreshed |-> (outcome = "stored")],
         frames |-> 0,
         ffts |-> extracted.mfcc.ffts \cup extracted.formants.ffts
                  \cup extracted.spectralCentroid.ffts,
         aux |-> enhancedDetection]

\* the buffers handleAnalyze is called with
AnalyzeBuffers == {b \in Buffers : b.length <= MfccFrameSize + MfccHopSize}

InitAnalyze ==
    /\ given \in AnalyzeBuffers
    /\ buf = given
    /\ ret = NoCall

HandleAnalyze ==
    /\ LET extracted == extractFeatures(buf)
       IN  \E rs \in RandomStreams : \E outcome \in InsertOutcomes :
               ret' = handleAnalyze(buf, extracted, rs, outcome)
    /\ UNCHANGED <<given, buf>>

NextAnalyze == HandleAnalyze

SpecAnalyze == InitAnalyze /\ [][NextAnalyze]_vars

--------------------------------------------------------------------------
(* loadModel of voiceCloning.ts and the modelCache.  buf holds modelCache
   (per key, the session it holds or NoSession), the calls (per call: its
   cache key, where it stands, the backends it called
   ort.InferenceSession.create with, those whose creation threw, and what its
   promise settled with) and, as a ghost, the sessions created.  A call runs
   without interruption from its start to its first await and from the
   settling of an awaited creation to its next await or its end. *)

Calls == 1 .. MaxCalls

\* cacheKey: the model type, or for a decoder the type and the language
CacheKeys == {"encoder", "decoder_english"}

NoSession == [by |-> 0, key |-> "none", backend |-> "none"]

\* ort.InferenceSession.create(path, options): with the webgl provider it
\* throws when Math.random() < 0.2 and else returns a new session; with the
\* wasm provider it returns a new session
CreateOutcomes(backend) ==
    IF backend = "webgl" THEN {"created", "thrown"} ELSE {"created"}

\* a first attempt whose failure is not caught
FallsBackNever(outcome) == FALSE

\* the inner catch of loadModel: a throw of the WebGL attempt leads to the
\* WASM attempt
FallsBack(outcome) == outcome = "thrown"

IdleCall ==
    [key |-> "none", pc |-> "idle", attempts |-> <<>>, thrown |-> {},
     result |-> NoSession]

InitLoad ==
    /\ given = [calls |-> Calls, keys |-> CacheKeys]
    /\ buf = [modelCache |-> [key \in CacheKeys |-> NoSession],
              calls |-> [c \in Calls |-> IdleCall],
              created |-> {}]
    /\ ret = NoCall

\* loadModel is called: "if (modelCache[cacheKey]) return modelCache[cacheKey]",
\* else create is called with the webgl provider and awaited
LoadModel(c, key) ==
    /\ buf.calls[c].pc = "idle"
    /\ buf' = [buf EXCEPT !.calls[c] =
                  IF buf.modelCache[key] # NoSession
                  THEN [IdleCall EXCEPT !.key = key, !.pc = "resolved",
                                        !.result = buf.modelCache[key]]
                  ELSE [IdleCall EXCEPT !.key = key, !.pc = "awaitWebgl",
                                        !.attempts = <<"webgl">>]]
    /\ UNCHANGED <<given, ret>>

\* the call's state once the creation it awaits returned a session
SessionCreated(c, backend) ==
    LET key == buf.calls[c].key
        model == [by |-> c, key |-> key, backend |-> backend]
    IN  [buf EXCEPT !.modelCache[key] = model,
                    !.calls[c].pc = "resolved",
                    !.calls[c].result = model,
                    !.created = @ \cup {model}]

\* the call's state once it throw "Failed to load ... model"
LoadFailed(c, backend) ==
    [buf EXCEPT !.calls[c].pc = "rejected",
                !.calls[c].thrown = @ \cup {backend}]

\* the awaited WebGL creation settles
WebglSettles(c) ==
    /\ buf.calls[c].pc = "awaitWebgl"
    /\ \E outcome \in CreateOutcomes("webgl") :
          buf' = IF outcome = "created" THEN SessionCreated(c, "webgl")
                 ELSE IF FallsBack(outcome)
                 THEN [buf EXCEPT !.calls[c].pc = "awaitWasm",
                                  !.calls[c].thrown = @ \cup {"webgl"},
                                  !.calls[c].attempts = Append(@, "wasm")]
                 ELSE LoadFailed(c, "webgl")
    /\ UNCHANGED <<given, ret>>

\* the awaited WASM creation settles
WasmSettles(c) ==
    /\ buf.calls[c].pc = "awaitWasm"
    /\ \E outcome \in CreateOutcomes("wasm") :
          buf' = IF outcome = "created" THEN SessionCreated(c, "wasm")
                 ELSE LoadFailed(c, "wasm")
    /\ UNCHANGED <<given, ret>>

NextLoad ==
    \E c \in Calls :
        \/ \E key \in CacheKeys : LoadModel(c, key)
        \/ WebglSettles(c)
        \/ WasmSettles(c)

SpecLoad == InitLoad /\ [][NextLoad]_vars

\* the timer an awaited creation waits for fires
SpecLoadFair ==
    SpecLoad /\ \A c \in Calls : WF_vars(WebglSettles(c)) /\ WF_vars(WasmSettles(c))

--------------------------------------------------------------------------
(* The operations of audioAnalysis.ts on buffers of several channels *)

InitChannels ==
    /\ given \in MultiChannelBuffers
    /\ buf = given
    /\ ret = NoCall

SpecChannels == InitChannels /\ [][Next]_vars

--------------------------------------------------------------------------
(* The combination step alone, applied to given scores *)

InitBlend ==
    /\ given \in [prosodyScore : Scores, spectralArtifactScore : Scores]
    /\ buf = given
    /\ ret = NoCall

Blend ==
    /\ ret' = [op |-> "NaturalnessBlend",
               val |-> NaturalnessBlend(buf.prosodyScore, buf.spectralArtifactScore),
               frames |-> 0,
               ffts |-> {},
               aux |-> 0]
    /\ UNCHANGED <<given, buf>>

NextBlend == Blend

SpecBlend == InitBlend /\ [][NextBlend]_vars

--------------------------------------------------------------------------
(* The claims *)

\* x is a number (not NaN, not an infinity) with lo <= x <= hi
InRange(x, lo, hi) == IsNum(x) /\ JsLe(lo, x) /\ JsLe(x, hi)

\* C1, as amended: on a signal of N samples extractMFCC (F = 512, H = 256)
\* analyses exactly min(10, max(0, floor((N - F) / H))) frames and extractPitch
\* (F = 2048, H = 512) exactly min(20, max(0, floor((N - F) / H))) frames; both
\* analyse no frame when N < F.
C1_FramesCapped ==
    /\ ret.op = "extractMFCC" =>
          /\ ret.frames = Min(10, Max(0, (given.length - 512) \div 256))
          /\ given.length < 512 => ret.frames = 0
    /\ ret.op = "extractPitch" =>
          /\ ret.frames = Min(20, Max(0, (given.length - 2048) \div 512))
          /\ given.length < 2048 => ret.frames = 0

\* C1, witness: extractMFCC stopped at 10 frames on a signal that holds more
C1_CapReached ==
    /\ ret.op = "extractMFCC"
    /\ ret.frames = 10
    /\ (given.length - 512) \div 256 > 10

\* C1, as stated: the framing extractors analyse exactly
\* max(0, floor((N - F) / H)) frames
C1_FramesUncapped ==
    /\ ret.op = "extractMFCC" =>
          ret.frames = Max(0, (given.length - 512) \div 256)
    /\ ret.op = "extractPitch" =>
          ret.frames = Max(0, (given.length - 2048) \div 512)

\* C2, as stated: on a signal shorter than the frame size (512 for MFCC and
\* formants, 2048 for pitch) the extractor returns the empty sequence
C2_ShortInputEmpty ==
    /\ (ret.op \in {"extractMFCC", "extractFormants"} /\ given.length < 512) =>
          ret.val = <<>>
    /\ (ret.op = "extractPitch" /\ given.length < 2048) =>
          ret.val = <<>>

\* C3, as stated: every fft invocation receives arrays whose length is 512,
\* 1024 or 2048
C3_FftPowerOfTwo ==
    \A call \in ret.ffts : call.len \in {512, 1024, 2048}

\* C4: calculateSpectralCentroid returns 0 when the total magnitude is 0, and
\* autoCorrelationPitch returns 0 when bestLag is 0; neither returns NaN or an
\* infinity.
C4_ZeroGuards ==
    /\ ret.op = "calculateSpectralCentroid" =>
          /\ IsNum(ret.val)
          /\ ret.aux.denominator = Zero => ret.val = Zero
    /\ ret.op = "extractPitch" =>
          \A i \in 1 .. Len(ret.aux) :
              /\ IsNum(ret.aux[i].pitch)
              /\ ret.aux[i].bestLag = 0 => ret.aux[i].pitch = Zero

\* C4, witness: the centroid of a spectrum that has bins, all of them zero
C4_ZeroSpectrum ==
    /\ ret.op = "calculateSpectralCentroid"
    /\ ret.aux.length > 0
    /\ ret.aux.denominator = Zero
    /\ ret.val = Zero

\* C5, as stated: calculateSpectralCentroid returns 0 for every signal shorter
\* than 2048 samples, and calculateZeroCrossingRate returns 0 for the empty
\* signal
C5_ShortInputZero ==
    /\ (ret.op = "calculateSpectralCentroid" /\ given.length < 2048) =>
          ret.val = Zero
    /\ (ret.op = "calculateZeroCrossingRate" /\ given.length = 0) =>
          ret.val = Zero

\* C6, as amended: the confidence of simulateDetection lies in [0.55, 0.95];
\* that of the JavaScript enhancedSyntheticVoiceDetection lies in [0.7, 1);
\* that of the TypeScript enhancedSyntheticVoiceDetection lies in [0.6, 0.95]
\* when its naturalness is a number and is NaN when its naturalness is NaN.
C6_ConfidenceRanges ==
    /\ ret.op = "simulateDetection" =>
          InRange(ret.val.confidence, Rat(55, 100), Rat(95, 100))
    /\ ret.op = "enhancedSyntheticVoiceDetectionJs" =>
          /\ InRange(ret.val.confidence, Rat(7, 10), One)
          /\ JsLt(ret.val.confidence, One)
    /\ ret.op = "enhancedSyntheticVoiceDetection" =>
          IF IsNaN(ret.val.naturalness)
          THEN IsNaN(ret.val.confidence_score)
          ELSE InRange(ret.val.confidence_score, Rat(6, 10), Rat(95, 100))

\* C6, witness: simulateDetection returned a confidence below 0.6
C6_BelowSixTenths ==
    /\ ret.op = "simulateDetection"
    /\ JsLt(ret.val.confidence, Rat(6, 10))

\* C6, as stated: every verdict's confidence lies in [0.6, 0.95]
C6_ConfidenceSixToNinetyFive ==
    /\ ret.op \in {"simulateDetection", "enhancedSyntheticVoiceDetectionJs"} =>
          InRange(ret.val.confidence, Rat(6, 10), Rat(95, 100))
    /\ ret.op = "enhancedSyntheticVoiceDetection" =>
          InRange(ret.val.confidence_score, Rat(6, 10), Rat(95, 100))

\* C7: from prosodyScore p and spectralArtifactScore s in [0, 1] the blend
\* computes naturalness = 0.6 * (1 - s) + 0.4 * p, is_synthetic =
\* (naturalness < 0.65) and confidence = min(0.95, max(0.6, 3 * |naturalness -
\* 0.65| + 0.6)); p = 0.8, s = 0.1 gives 0.86, false, 0.95; naturalness 0.65
\* gives false, 0.6.
C7_BlendFormula ==
    ret.op = "NaturalnessBlend" =>
        LET p == ret.val.prosodyScore
            s == ret.val.spectralArtifactScore
            naturalness == JsAdd(JsMul(Rat(6, 10), JsSub(One, s)), JsMul(Rat(4, 10), p))
            distance == MathAbs(JsSub(naturalness, Rat(65, 100)))
        IN  (InRange(p, Zero, One) /\ InRange(s, Zero, One)) =>
                /\ ret.val.naturalness = naturalness
                /\ ret.val.is_synthetic = JsLt(naturalness, Rat(65, 100))
                /\ ret.val.confidence_score =
                       MathMin(Rat(95, 100),
                           MathMax(Rat(6, 10),
                               JsAdd(JsMul(Rat(3, 1), distance), Rat(6, 10))))
                /\ (p = Rat(8, 10) /\ s = Rat(1, 10)) =>
                       /\ ret.val.naturalness = Rat(86, 100)
                       /\ ret.val.is_synthetic = FALSE
                       /\ ret.val.confidence_score = Rat(95, 100)
                /\ ret.val.naturalness = Rat(65, 100) =>
                       /\ ret.val.is_synthetic = FALSE
                       /\ ret.val.confidence_score = Rat(6, 10)

\* C7, witness: the blend of scores in [0, 1] came out at exactly 0.65
C7_AtThreshold ==
    /\ ret.op = "NaturalnessBlend"
    /\ InRange(ret.val.prosodyScore, Zero, One)
    /\ InRange(ret.val.spectralArtifactScore, Zero, One)
    /\ ret.val.naturalness = Rat(65, 100)
    /\ ret.val.is_synthetic = FALSE

\* C8, as amended: two successive runs of enhancedSyntheticVoiceDetection
\* whose prosodyScore and spectralArtifactScore agree return identical
\* is_synthetic, confidence_score and naturalness (the two scores themselves
\* are computed from Math.random() draws).
C8_SameScoresSameVerdict ==
    [][(/\ ret.op = "enhancedSyntheticVoiceDetection"
        /\ ret'.op = "enhancedSyntheticVoiceDetection"
        /\ ret'.val.prosodyScore = ret.val.prosodyScore
        /\ ret'.val.spectralArtifactScore = ret.val.spectralArtifactScore)
       => ret'.val = ret.val]_vars

\* C8, witness: a run of enhancedSyntheticVoiceDetection whose scores, both
\* numbers, came from draws that were not all the same
C8_ScoresFromDraws ==
    /\ ret.op = "enhancedSyntheticVoiceDetection"
    /\ IsNum(ret.val.naturalness)
    /\ ret.val.prosodyScore = One
    /\ JsLt(ret.val.spectralArtifactScore, One)

\* C8, as stated: no random value influences the output, so two successive
\* runs of enhancedSyntheticVoiceDetection on the same buffer return the same
C8_NoRandomInfluence ==
    [][(/\ ret.op = "enhancedSyntheticVoiceDetection"
        /\ ret'.op = "enhancedSyntheticVoiceDetection")
       => ret'.val = ret.val]_vars

\* C9, as stated: prosodyScore, spectralArtifactScore and naturalness returned
\* by enhancedSyntheticVoiceDetection are each numbers in [0, 1], never NaN
C9_BreakdownInUnit ==
    ret.op = "enhancedSyntheticVoiceDetection" =>
        /\ InRange(ret.val.prosodyScore, Zero, One)
        /\ InRange(ret.val.spectralArtifactScore, Zero, One)
        /\ InRange(ret.val.naturalness, Zero, One)

C11_BufferUnchanged == buf = given

\* C11, witness: a call that windowed frames and ran the in-place fft on them
\* has returned, and the buffer is as given
C11_FftRanOnCopies ==
    /\ ret.op = "simulateDetection"
    /\ \E call \in ret.ffts : call.ran /\ call.len = CentroidFrameSize
    /\ ~FrameSilent(given, Slice(given, 0, CentroidFrameSize))
    /\ buf = given

\* the buffer of one channel whose sample rate and channel 0 are those of b
ChannelZeroOf(b) ==
    [length |-> b.length, sampleRate |-> b.sampleRate, profile |-> b.profile]

\* C12: extractMFCC, extractPitch, extractFormants, calculateSpectralCentroid
\* and calculateZeroCrossingRate return, on a buffer of any number of channels,
\* what they return on the one-channel buffer with the same sample rate and the
\* same channel 0; so two buffers that agree on these get identical results.
C12_ChannelZeroOnly ==
    /\ ret.op = "extractMFCC" =>
          ret = extractMFCC(ChannelZeroOf(given), DefaultNumCoefficients)
    /\ ret.op = "extractPitch" => ret = extractPitch(ChannelZeroOf(given))
    /\ ret.op = "extractFormants" => ret = extractFormants(ChannelZeroOf(given))
    /\ ret.op = "calculateSpectralCentroid" =>
          ret = calculateSpectralCentroid(ChannelZeroOf(given))
    /\ ret.op = "calculateZeroCrossingRate" =>
          ret = calculateZeroCrossingRate(ChannelZeroOf(given))

\* C12, witness: the zero-crossing rate of a buffer whose channel 1 differs
\* from its channel 0
C12_OtherChannelDiffers ==
    /\ ret.op = "calculateZeroCrossingRate"
    /\ Len(given.others) > 0
    /\ given.others[1].pat /= given.profile.pat
    /\ JsGt(ret.val, Zero)

\* the spectrum extractFormants takes of buffer b
FormantSpectrum(b) ==
    computeSpectrum(b, applyHammingWindow(Slice(b, 0, FormantFrameSize))).bins

\* C13: every value returned by extractFormants, and every value returned by
\* findSpectralPeaks on the spectrum extractFormants hands it, lies strictly
\* between 200 Hz and 5000 Hz.
C13_FormantBand ==
    ret.op = "extractFormants" =>
        LET peaks == findSpectralPeaks(FormantSpectrum(given), given.sampleRate)
        IN  /\ \A i \in 1 .. Len(ret.val) :
                  JsGt(ret.val[i], Rat(200, 1)) /\ JsLt(ret.val[i], Rat(5000, 1))
            /\ \A i \in 1 .. Len(peaks) :
                  JsGt(peaks[i], Rat(200, 1)) /\ JsLt(peaks[i], Rat(5000, 1))

\* C13, witness: extractFormants returned peaks from a spectrum that has a
\* local maximum at exactly 5000 Hz
C13_PeakAtBandEdge ==
    /\ ret.op = "extractFormants"
    /\ Len(ret.val) > 0
    /\ LET bins == FormantSpectrum(given)
       IN  \E i \in 1 .. Len(bins) - 2 :
               /\ JsGt(bins[i + 1], bins[i]) /\ JsGt(bins[i + 1], bins[i + 2])
               /\ PeakBinToHz(i, given.sampleRate, Len(bins)) = Rat(5000, 1)

\* the bins of the spectrum of b that are strict local maxima with a
\* frequency strictly between 200 Hz and 5000 Hz
FormantPeakBins(b) ==
    LET bins == FormantSpectrum(b)
        Hz(i) == Rat(i * b.sampleRate, 2 * Len(bins))
    IN  {i \in 1 .. Len(bins) - 2 :
            /\ JsGt(bins[i + 1], bins[i]) /\ JsGt(bins[i + 1], bins[i + 2])
            /\ JsGt(Hz(i), Rat(200, 1)) /\ JsLt(Hz(i), Rat(5000, 1))}

\* C14: extractFormants returns exactly the (at most 5) highest-frequency bins
\* i, 1 <= i <= spectrumLength - 2, that are strict local maxima with a
\* frequency in (200, 5000), as frequencies in strictly descending order;
\* the magnitudes decide only which bins are maxima.
C14_HighestFivePeaks ==
    ret.op = "extractFormants" =>
        LET peakBins == FormantPeakBins(given)
            kept == {i \in peakBins : Cardinality({k \in peakBins : k > i}) < 5}
            Hz(i) == Rat(i * given.sampleRate, 2 * Len(FormantSpectrum(given)))
        IN  /\ Len(ret.val) = Cardinality(kept)
            /\ {ret.val[j] : j \in 1 .. Len(ret.val)} = {Hz(i) : i \in kept}
            /\ \A j \in 1 .. Len(ret.val) - 1 : JsGt(ret.val[j], ret.val[j + 1])

\* C14, witness: five formants were kept out of more peaks, and a peak that
\* was dropped is stronger than one that was kept
C14_StrongerPeakDropped ==
    /\ ret.op = "extractFormants"
    /\ Len(ret.val) = 5
    /\ ret.aux > 5
    /\ LET bins == FormantSpectrum(given)
           peakBins == FormantPeakBins(given)
           kept == {i \in peakBins : Cardinality({k \in peakBins : k > i}) < 5}
       IN  \E i \in kept : \E k \in peakBins \ kept : JsGt(bins[k + 1], bins[i + 1])

\* coefficient c (from 0) of frame f (from 0) of b, for vectors of K coefficients
MfccCoefficient(b, K, f, c) ==
    LET frame == Slice(b, f * 256, f * 256 + 512)
        spectrum == computeSpectrum(b, applyHammingWindow(frame))
    IN  computeDCT(b, spectrum, K)[c + 1]

\* C15: extractMFCC(buffer, K) returns the first min(40, K * min(10, numFrames))
\* values of the frame-ordered concatenation of the per-frame K-coefficient
\* vectors (numFrames = max(0, floor((N - 512) / 256))), never more than 40;
\* with K = 13 and four frames or more, value 40 is coefficient 0 of frame 3.
C15_FirstFortyInFrameOrder ==
    ret.op = "extractMFCC" =>
        LET K == ret.aux.numCoefficients
            numFrames == Max(0, (given.length - 512) \div 256)
            count == Min(40, K * Min(10, numFrames))
        IN  /\ Len(ret.val) = count
            /\ Len(ret.val) <= 40
            /\ \A j \in 1 .. Len(ret.val) :
                  ret.val[j] = MfccCoefficient(given, K, (j - 1) \div K, (j - 1) % K)
            /\ (K = 13 /\ numFrames >= 4) =>
                  /\ Len(ret.val) = 40
                  /\ ret.val[39] = MfccCoefficient(given, K, 2, 12)
                  /\ ret.val[40] = MfccCoefficient(given, K, 3, 0)

\* C15, witness: with the default 13 coefficients more than 40 values were
\* computed from frames that differ, and 40 were returned
C15_DefaultTruncated ==
    /\ ret.op = "extractMFCC"
    /\ ret.aux.numCoefficients = 13
    /\ ret.aux.total > 40
    /\ Len(ret.val) = 40
    /\ ret.val[1] # ret.val[14]

\* the frames of an extractPitch call whose estimate is strictly positive
PositiveFrames(r) == {i \in 1 .. Len(r.aux) : JsGt(r.aux[i].pitch, Zero)}

\* C16: extractPitch returns, in frame order, exactly the strictly positive
\* per-frame estimates of the frames it analyses: every element is > 0, the
\* other estimates are omitted and the length is at most the frames analysed.
C16_PositiveEstimatesInOrder ==
    ret.op = "extractPitch" =>
        LET positive == PositiveFrames(ret)
            \* the frame of the j-th positive estimate
            FrameOf(j) == CHOOSE i \in positive :
                              Cardinality({k \in positive : k < i}) = j - 1
        IN  /\ Len(ret.aux) = ret.frames
            /\ Len(ret.val) = Cardinality(positive)
            /\ \A j \in 1 .. Len(ret.val) : ret.val[j] = ret.aux[FrameOf(j)].pitch
            /\ \A j \in 1 .. Len(ret.val) : JsGt(ret.val[j], Zero)
            /\ Len(ret.val) <= ret.frames

\* C16, witness: some estimates were kept and a zero estimate between two
\* kept ones was omitted
C16_ZeroEstimateOmitted ==
    /\ ret.op = "extractPitch"
    /\ 0 < Len(ret.val)
    /\ Len(ret.val) < ret.frames
    /\ \E i, j, k \in 1 .. Len(ret.aux) :
          /\ i < j /\ j < k
          /\ JsGt(ret.aux[i].pitch, Zero)
          /\ ret.aux[j].pitch = Zero
          /\ JsGt(ret.aux[k].pitch, Zero)

\* the sum of frame[i] * frame[i + L] over from <= i < to
RECURSIVE LagProductSum(_, _, _, _)
LagProductSum(frame, L, from, to) ==
    IF to <= from THEN 0
    ELSE IF to - from > 8
    THEN LagProductSum(frame, L, from, from + 8) + LagProductSum(frame, L, from + 8, to)
    ELSE LagProductSum(frame, L, from, to - 1)
           + Tile(frame.pat, to - 1) * Tile(frame.pat, to - 1 + L)

\* the lags L with floor(sampleRate/500) <= L < floor(sampleRate/50) and
\* L < frame.length / 2
ClaimedLags(frame) ==
    {L \in 0 .. frame.length :
        /\ frame.sampleRate \div 500 <= L
        /\ L < frame.sampleRate \div 50
        /\ 2 * L < frame.length}

\* <<L, sum>> for every claimed lag
LagSums(frame) ==
    {<<L, LagProductSum(frame, L, 0, frame.length - L)>> : L \in ClaimedLags(frame)}

\* C17: autoCorrelationPitch searches exactly the lags L with
\* floor(sampleRate/500) <= L < floor(sampleRate/50) and L < frame.length/2
\* and returns sampleRate/L* for the lag L* with the largest sum of
\* frame[i]*frame[i+L] over 0 <= i < frame.length-L (the smallest such lag on
\* ties) when that sum is > 0, and 0 otherwise.
C17_BestLagOfSearchedRange ==
    ret.op = "autoCorrelationPitch" =>
        LET sums == LagSums(given)
            best == {p \in sums : \A q \in sums : q[2] <= p[2]}
        IN  /\ ret.aux.lags = ClaimedLags(given)
            /\ IF \E p \in sums : p[2] > 0
               THEN \E p \in best :
                       /\ \A q \in best : p[1] <= q[1]
                       /\ ret.val = Rat(given.sampleRate, p[1])
               ELSE ret.val = Zero

\* C17, witness: two searched lags share the largest sum, which is positive,
\* and the pitch of the smaller one was returned
C17_TieAtPositiveMaximum ==
    /\ ret.op = "autoCorrelationPitch"
    /\ LET sums == LagSums(given)
       IN  \E p, q \in sums :
              /\ p[1] < q[1] /\ p[2] = q[2] /\ p[2] > 0
              /\ \A r \in sums : r[2] <= p[2]
              /\ ret.val = Rat(given.sampleRate, p[1])

\* the indices i in 1 .. N - 1 of b where samples i - 1 and i differ in sign
SignChanges(b) ==
    {i \in 1 .. b.length - 1 :
        (Tile(b.profile.pat, i) >= 0) # (Tile(b.profile.pat, i - 1) >= 0)}

\* C18, as stated: calculateZeroCrossingRate returns a value in [0, 1] for
\* every signal of any length, equal to the number of indices i in 1 .. N - 1
\* where samples i - 1 and i differ in sign, divided by N (counted directly
\* for the signals of up to 2048 samples).
C18_ZcrInUnitInterval ==
    ret.op = "calculateZeroCrossingRate" =>
        /\ InRange(ret.val, Zero, One)
        /\ given.length <= 2048 =>
              ret.val = JsDiv(Rat(Cardinality(SignChanges(given)), 1), Rat(given.length, 1))

\* C19, as stated: every conversion of a spectrum bin to Hz uses
\* bin * sampleRate / (2 * spectrumLength): the frequency calculateSpectralCentroid
\* gives bin 1 is sampleRate / (2 * spectrumLength), and every formant is
\* k * sampleRate / (2 * spectrumLength) for a bin k of the spectrum.
C19_BinToHzBySpectrumLength ==
    /\ (ret.op = "calculateSpectralCentroid" /\ ret.aux.length > 0) =>
          ret.aux.binWidth = Rat(given.sampleRate, 2 * ret.aux.length)
    /\ ret.op = "extractFormants" =>
          LET spectrumLength == Len(FormantSpectrum(given))
          IN  \A j \in 1 .. Len(ret.val) :
                  \E k \in 0 .. spectrumLength - 1 :
                      ret.val[j] = Rat(k * given.sampleRate, 2 * spectrumLength)

\* n is a power of two
IsPowerOfTwo(n) == \E e \in 0 .. 11 : n = 2 ^ e

\* C20, as stated: an fft invocation on arrays whose length is not a power of
\* two is rejected with an InvalidFrameSize error and does not run the
\* butterflies.
C20_NonPowerOfTwoRejected ==
    \A call \in ret.ffts :
        ~IsPowerOfTwo(call.len) => (call.error = "InvalidFrameSize" /\ ~call.ran)

\* the weights simulateDetection adds for buffer b, from the extractors' results:
\* <<pitch, ZCR, centroid, MFCC>>, each the weight or 0
DetectionWeights(b) ==
    LET pitch == extractPitch(b).val
        mfcc == extractMFCC(b, 13).val
        zcr == calculateZeroCrossingRate(b).val
        centroid == calculateSpectralCentroid(b).val
    IN  << IF Len(pitch) > 0 /\ JsLt(calculateVariance(pitch), Rat(100, 1))
           THEN Rat(30, 100) ELSE Zero,
           IF JsLt(zcr, Rat(5, 100)) \/ JsGt(zcr, Rat(15, 100))
           THEN Rat(20, 100) ELSE Zero,
           IF JsGt(centroid, Rat(4000, 1)) THEN Rat(15, 100) ELSE Zero,
           IF Len(mfcc) > 0 /\ JsLt(calculateVariance(mfcc), Rat(10, 1))
           THEN Rat(25, 100) ELSE Zero >>

\* the score: the four weights and r with r = 0.3 * random in [0, 0.3)
DetectionScore(b, random) ==
    LET w == DetectionWeights(b)
    IN  JsAdd(JsAdd(JsAdd(JsAdd(w[1], w[2]), w[3]), w[4]), JsMul(random, Rat(3, 10)))

\* the confidence and the verdict that follow from dividing the score by count
DetectionVerdict(score, count) ==
    LET quotient == JsDiv(score, Rat(Max(count, 1), 1))
        confidence == IF JsLt(quotient, Rat(55, 100)) THEN Rat(55, 100)
                      ELSE IF JsGt(quotient, Rat(95, 100)) THEN Rat(95, 100)
                      ELSE quotient
    IN  [isSynthetic |-> JsGt(confidence, Rat(70, 100)), confidence |-> confidence]

\* C21, as amended: simulateDetection forms its score as the four weights
\* plus r, divides it by the factor count, which is the number of: pitch track
\* not empty, ZCR outside [0.05, 0.15], centroid > 4000, MFCC vector not empty
\* (at least 1), clamps the quotient to [0.55, 0.95] to obtain the confidence
\* and reports isSynthetic exactly when the confidence exceeds 0.7.
C21_ScoreByFeaturesPresent ==
    ret.op = "simulateDetection" =>
        LET w == DetectionWeights(given)
            count == (IF Len(extractPitch(given).val) > 0 THEN 1 ELSE 0)
                     + (IF w[2] # Zero THEN 1 ELSE 0)
                     + (IF w[3] # Zero THEN 1 ELSE 0)
                     + (IF Len(extractMFCC(given, 13).val) > 0 THEN 1 ELSE 0)
            score == DetectionScore(given, ret.aux.random)
        IN  /\ ret.aux.score = score
            /\ ret.aux.factors = count
            /\ ret.val = DetectionVerdict(score, count)
            /\ JsGe(JsMul(ret.aux.random, Rat(3, 10)), Zero)
            /\ JsLt(JsMul(ret.aux.random, Rat(3, 10)), Rat(3, 10))

\* C21, witness: a detection on a buffer whose pitch track is not empty and
\* has a variance of 100 or more: a factor is counted and no weight is added
C21_FactorWithoutWeight ==
    /\ ret.op = "simulateDetection"
    /\ Len(extractPitch(given).val) > 0
    /\ DetectionWeights(given)[1] = Zero
    /\ ret.aux.factors > Cardinality({i \in 1 .. 4 : DetectionWeights(given)[i] # Zero})

\* C21, as stated: the factor count is the number of the four features that
\* added their weight (at least 1), and the confidence is the clamped
\* quotient of the score by it.
C21_ScoreByWeightsAdded ==
    ret.op = "simulateDetection" =>
        LET w == DetectionWeights(given)
            count == Cardinality({i \in 1 .. 4 : w[i] # Zero})
            score == DetectionScore(given, ret.aux.random)
        IN  /\ ret.aux.score = score
            /\ Max(ret.aux.factors, 1) = Max(count, 1)
            /\ ret.val = DetectionVerdict(score, count)

\* C22, as stated: applyHammingWindow is never invoked with a frame of length
\* 1, whatever the signal's length.  (extractMFCC, extractFormants and
\* calculateSpectralCentroid pass every frame to applyHammingWindow and its
\* result, of the same length, to computeSpectrum and so to fft: the lengths
\* of their fft invocations are the lengths of the frames windowed.)
C22_WindowNeverOnOneSample ==
    ret.op \in {"extractMFCC", "extractFormants", "calculateSpectralCentroid"} =>
        \A call \in ret.ffts : call.len # 1

\* mel output x is not below mel output y
MelNotBelow(x, y) ==
    /\ x # NaN /\ y # NaN
    /\ JsGe(x.of, y.of)

\* the mel outputs once bin j (from 1) of input m is raised by one
MelRaised(m, j) == applyMelFilterbank([m EXCEPT !.spectrum[j] = @ + 1]).val

\* C23: for a spectrum of non-negative magnitudes every filter weight of
\* applyMelFilterbank is in [0, 1] and every filter sum is >= 0, and raising
\* one bin's magnitude with the others fixed does not decrease any of the 26
\* mel outputs.
C23_MelMonotonePerBin ==
    ret.op = "applyMelFilterbank" =>
        /\ \A t \in ret.aux.weights : InRange(t[3], Zero, One)
        /\ Len(ret.val) = 26
        /\ \A i \in 1 .. 26 : IsNum(ret.aux.sums[i]) /\ JsGe(ret.aux.sums[i], Zero)
        /\ \A j \in 1 .. Len(given.spectrum) :
              LET raised == MelRaised(given, j)
              IN  \A i \in 1 .. 26 : MelNotBelow(raised[i], ret.val[i])

\* C23, witness: a bin lies inside a filter's support with a weight strictly
\* between 0 and 1, and raising it raises that filter's output
C23_BinRaisesFilter ==
    /\ ret.op = "applyMelFilterbank"
    /\ \E t \in ret.aux.weights :
          /\ JsGt(t[3], Zero) /\ JsLt(t[3], One)
          /\ LET raised == MelRaised(given, t[2] + 1)
             IN  JsGt(raised[t[1] + 1].of, ret.val[t[1] + 1].of)

\* the k for which n = 2^k
Log2(n) == CHOOSE k \in 0 .. 30 : 2 ^ k = n

\* the number whose k binary digits are those of i in reverse order
RECURSIVE BitReversal(_, _)
BitReversal(i, k) ==
    IF k = 0 THEN 0 ELSE (i % 2) * 2 ^ (k - 1) + BitReversal(i \div 2, k - 1)

\* C24: for every power-of-two length n = 2^k, after the first loop of fft
\* position i holds the element originally at the k-bit reversal of i, in the
\* real and in the imaginary array; the permutation is a bijection on
\* 0 .. n - 1 and applying it twice restores the original order.
C24_BitReversalPermutation ==
    (IsPowerOfTwo(given.n) /\ buf.pc \in {"butterfly", "done"}) =>
        LET n == given.n
            k == Log2(n)
        IN  /\ \A i \in 0 .. n - 1 :
                  /\ buf.real[i + 1] = BitReversal(i, k)
                  /\ buf.imag[i + 1] = BitReversal(i, k)
            /\ {buf.real[i + 1] : i \in 0 .. n - 1} = 0 .. n - 1
            /\ \A i \in 0 .. n - 1 : buf.real[buf.real[i + 1] + 1] = i

\* C24, witness: the first loop has finished on arrays of 8 elements or more
\* and has moved elements
C24_PermutedEight ==
    /\ IsPowerOfTwo(given.n)
    /\ given.n >= 8
    /\ buf.pc = "butterfly"
    /\ buf.stages = <<>>
    /\ \E i \in 0 .. given.n - 1 : buf.real[i + 1] # i

\* what C25 says of the states of a call on arrays of n = 2^k >= 2 elements
C25_StagesWithinBounds ==
    (IsPowerOfTwo(given.n) /\ given.n >= 2) =>
        LET n == given.n
        IN  /\ buf.outside = {}
            /\ buf.last # NoStage =>
                  /\ buf.last.count * 2 = n
                  /\ \A i \in 0 .. n - 1 : buf.last.touched[i + 1] = 1
            /\ \A s \in 1 .. Len(buf.stages) : buf.stages[s] = 2 ^ s
            /\ buf.pc = "done" =>
                  /\ Len(buf.stages) = Log2(n)
                  /\ buf.stages[Len(buf.stages)] = n

\* C25: for every power-of-two length n >= 2, fft terminates after exactly
\* log2(n) butterfly stages (len = 2, 4, ..., n) of n/2 butterflies each,
\* every index it reads or writes lies in 0 .. n - 1, and within one stage
\* each index is touched by exactly one butterfly.
C25_TerminatesAfterLogStages ==
    /\ []C25_StagesWithinBounds
    /\ <>(buf.pc = "done")

\* C25, witness: a call on arrays of 16 elements or more has returned
C25_SixteenDone ==
    /\ IsPowerOfTwo(given.n)
    /\ given.n >= 16
    /\ buf.pc = "done"
    /\ Len(buf.stages) >= 4

\* C26: simulateDetection never reports a synthetic verdict: for every buffer
\* and every draw the score divided by the factor count is below 0.55, so the
\* confidence is exactly 0.55 and isSynthetic is false; a pitch track that is
\* not empty comes with an MFCC vector that is not empty.
C26_NeverSynthetic ==
    ret.op = "simulateDetection" =>
        LET pitch == extractPitch(given).val
            mfcc == extractMFCC(given, 13).val
            quotient == JsDiv(DetectionScore(given, ret.aux.random),
                              Rat(Max(ret.aux.factors, 1), 1))
        IN  /\ JsLt(quotient, Rat(55, 100))
            /\ ret.val.confidence = Rat(55, 100)
            /\ ret.val.isSynthetic = FALSE
            /\ Len(pitch) > 0 => Len(mfcc) > 0
            /\ ret.aux.factors = 1 => DetectionWeights(given)[1] = Zero

\* C26, witness: a detection in which all four features added their weight
\* and the draw was the largest, and one in which the score exceeds 1
C26_AllWeightsAdded ==
    /\ ret.op = "simulateDetection"
    /\ ret.aux.factors = 4
    /\ \A i \in 1 .. 4 : DetectionWeights(given)[i] # Zero
    /\ \A r \in RandomDraws : JsLe(r, ret.aux.random)
    /\ JsGt(ret.aux.score, One)
    /\ ret.val.confidence = Rat(55, 100)

C28_VerdictFromResolvedDetector ==
    ret.op = "handleAnalyze" =>
        /\ ret.aux.state = "fulfilled"
        /\ ret.val.currentAnalysis.detection.isSynthetic = ret.aux.value.isSynthetic
        /\ ret.val.currentAnalysis.detection.confidence = ret.aux.value.confidence
        /\ ret.val.inserted.is_synthetic = ret.aux.value.isSynthetic
        /\ ret.val.inserted.confidence_score = ret.aux.value.confidence
        /\ Undefined \notin {ret.val.inserted.is_synthetic, ret.val.inserted.confidence_score}

\* what C29 says of every state of every loadModel call
C29_FallbackOrder ==
    \A c \in Calls :
        LET call == buf.calls[c]
        IN  /\ call.attempts \in {<<>>, <<"webgl">>, <<"webgl", "wasm">>}
            /\ (call.pc \in {"awaitWebgl", "awaitWasm"}) => call.attempts # <<>>
            /\ (Len(call.attempts) = 2) <=> ("webgl" \in call.thrown)
            /\ call.pc = "rejected" =>
                  /\ "wasm" \in call.thrown
                  /\ buf.modelCache[call.key].by # c
            /\ (call.pc = "resolved" /\ call.attempts # <<>>) =>
                  /\ call.result \in buf.created
                  /\ call.result.by = c
                  /\ call.result.backend = call.attempts[Len(call.attempts)]
                  /\ "wasm" \notin call.thrown

\* C29: loadModel attempts the WebGL backend first; it attempts the WASM
\* backend if and only if the WebGL attempt throws; it rejects only when the
\* WASM attempt also throws, leaving the cache entry unset; otherwise it
\* resolves with the created session; every call eventually settles.
C29_FallbackAndSettle ==
    /\ []C29_FallbackOrder
    /\ \A c \in Calls :
          (buf.calls[c].pc # "idle") ~> (buf.calls[c].pc \in {"resolved", "rejected"})

\* C29, witness: a call whose WebGL attempt threw has resolved with the
\* session its WASM attempt created
C29_ResolvedAfterFallback ==
    \E c \in Calls :
        /\ buf.calls[c].pc = "resolved"
        /\ buf.calls[c].attempts = <<"webgl", "wasm">>
        /\ buf.calls[c].result.backend = "wasm"
        /\ buf.modelCache[buf.calls[c].key] = buf.calls[c].result

\* C30, as stated: across any interleaving of loadModel calls at most one
\* session is created per cache key, and a call made once modelCache holds a
\* session for its key returns that session without calling create.
C30_OneSessionPerKey ==
    /\ \A key \in CacheKeys : Cardinality({m \in buf.created : m.key = key}) <= 1
    /\ \A c \in Calls :
          (buf.calls[c].pc = "resolved" /\ buf.calls[c].attempts = <<>>) =>
              buf.calls[c].result \in buf.created

==========================================================================
